---- MODULE Spec2Model ----
(***************************************************************************)
(* Presentation orchestration of the voice presenter agent: the module     *)
(* level navigation state (current_slide_index, total_slides, slides_data, *)
(* room_context), the three navigation tools, update_slide_display and the *)
(* entrypoint coroutine with its automatic slide loop and its cleanup.     *)
(* Both entrypoint variants are modelled: src/src/agent.py ("agent") and   *)
(* src/src/agent_temp.py ("agent_temp").  One action is one run of a       *)
(* coroutine from one await to the next: asyncio tasks interleave only at  *)
(* awaits.                                                                 *)
(***************************************************************************)
EXTENDS Integers, Sequences, FiniteSets, TLC

\* ------------------------------------------------------------------ bounds
\* largest deck the Deck Store returns
MaxSlides == 3
\* largest number of slides of a deck that have no image_url
MaxMissing == 1
\* navigation tool calls issued in one session
MaxCmds == 2

\* ------------------------------------------------------- program constants
\* agent.py: max_retries = 3, used as range(max_retries)
max_retries_agent == 3
\* agent_temp.py: max_retries = 2, used as range(max_retries)
max_retries_temp == 2
\* agent_temp.py: get_slide_context(..., window=1)
window == 1

VARIABLES
    variant,              \* which entrypoint file runs: "agent" or "agent_temp"
    current_slide_index,  \* global cursor
    total_slides,         \* global
    slides_data,          \* global: sequence of slide records
    room_context,         \* global: TRUE when it holds ctx, FALSE when None
    pc,                   \* the await at which entrypoint is suspended
    session,              \* entrypoint local: TRUE once AgentSession(...) was built
    slide,                \* entrypoint local: index of the slide read at the loop top
    slide_context,        \* ordinal the narration instruction asks to present
    attempt,              \* loop variable of the retry loop
    speech_handle,        \* entrypoint local: last handle generate_reply returned
    tool,                 \* the tool call in flight, or the one the last step made
    ncalls,               \* history: number of tool calls made so far
    advances,             \* history: next_slide calls since the deck was loaded,
                          \*   -1 once anything else wrote the cursor
    drv,                  \* history: what the last step of the slide loop did
    touched,              \* history: "none", or whether the loop was suspended on
                          \*   a narration ("narrate") or elsewhere ("other") when
                          \*   a tool last wrote the cursor in this iteration
    only_timeouts,        \* history: every failed attempt of this iteration timed out
    undisturbed,          \* history: no tool was called and no publish failed yet
    narrated,             \* history: ordinals a slide narration was requested for
                          \*   in the undisturbed run, {} once it is disturbed
    closings,             \* history: closing remarks requested
    ending                \* history: why entrypoint left its try block, and which
                          \*   awaits of the finally block raised an Exception

vars == << variant, current_slide_index, total_slides, slides_data, room_context,
           pc, session, slide, slide_context, attempt, speech_handle,
           tool, ncalls, advances, drv, touched, only_timeouts, undisturbed,
           narrated, closings, ending >>

globals == << current_slide_index, total_slides, slides_data, room_context >>

\* ----------------------------------------------------------------- values
Variants == {"agent", "agent_temp"}

\* a slide row: slide_number is its 1-based rank, image_url is "" when missing
SlideRow(n, url) == [slide_number |-> n, image_url |-> url]

\* the decks the Deck Store can return, ordered by slide_number
Decks ==
    UNION { { [i \in 1..n |-> SlideRow(i, IF i \in miss THEN "" ELSE "img")] :
              miss \in { m \in SUBSET (1..n) : Cardinality(m) <= MaxMissing } } :
            n \in 0..MaxSlides }

\* slide_number arguments a caller passes to goto_slide: every number of the
\* deck and the nearest numbers outside it
SlideNumbers == 0..(total_slides + 1)

NoHandle == [exists |-> FALSE, interrupted |-> FALSE, open |-> FALSE]
NoAttrs == [current_slide_url |-> "", current_slide_number |-> 0, total_slides |-> 0]
NoStatus == [kind |-> "none", n |-> 0, total |-> 0]
Pending == [kind |-> "pending", n |-> 0, total |-> 0]
NoTool == [op |-> "none", arg |-> 0, pre |-> 0, post |-> 0, total |-> 0,
           published |-> FALSE, attrs |-> NoAttrs, status |-> NoStatus]
NoEnding == [cause |-> "none", close_failed |-> FALSE, disconnect_failed |-> FALSE]
NoDrv == [ev |-> "none", interrupted |-> FALSE, idx |-> 0, from |-> 0, to |-> 0,
          tries |-> 0, only_timeouts |-> FALSE, touched |-> "none"]

max_retries == IF variant = "agent" THEN max_retries_agent ELSE max_retries_temp

\* ---------------------------------------------------------------- helpers
\* slides_data[i] with a Python index i: raises IndexError when out of range
InRange(i) == i >= 0 /\ i < Len(slides_data)
Row(i) == slides_data[i + 1]

Max(a, b) == IF a > b THEN a ELSE b
Min(a, b) == IF a < b THEN a ELSE b

\* get_slide_context: the window of previews and the one slide marked CURRENT
get_slide_context(current_idx, slides, w) ==
    LET start == Max(0, current_idx - w)
        end == Min(Len(slides), current_idx + w + 1)
    IN [previous |-> { i + 1 : i \in start..(current_idx - 1) },
        current |-> current_idx + 1,
        next |-> { i + 1 : i \in (current_idx + 1)..(end - 1) }]

\* the attributes update_slide_display passes to set_attributes
DisplayAttrs(idx) ==
    [current_slide_url |-> Row(idx).image_url,
     current_slide_number |-> idx + 1,
     total_slides |-> total_slides]

Init ==
    /\ variant \in Variants
    /\ current_slide_index = 0
    /\ total_slides = 0
    /\ slides_data = << >>
    /\ room_context = FALSE
    /\ pc = "start"
    /\ session = FALSE
    /\ slide = 0
    /\ slide_context = 0
    /\ attempt = 0
    /\ speech_handle = NoHandle
    /\ tool = NoTool
    /\ ncalls = 0
    /\ advances = -1
    /\ drv = NoDrv
    /\ touched = "none"
    /\ only_timeouts = TRUE
    /\ undisturbed = TRUE
    /\ narrated = {}
    /\ closings = 0
    /\ ending = NoEnding

\* ======================================================= navigation tools
\* a tool call is made only when the previous one has returned (one tool
\* call in flight), and at most MaxCmds are made in one session
ToolIdle == tool.status.kind # "pending" /\ ncalls < MaxCmds

\* mutants of the guards and of the jump target
next_slide_guard_off_by_one == current_slide_index <= total_slides - 1
next_slide_guard_absent == TRUE
previous_slide_guard_off_by_one == current_slide_index >= 0
goto_slide_guard_from_zero(slide_number) ==
    0 <= slide_number /\ slide_number <= total_slides
goto_slide_target_one_based(slide_number) == slide_number
goto_slide_guard_upper_only(slide_number) == slide_number <= total_slides
next_slide_guard_inclusive == current_slide_index <= total_slides
previous_slide_guard_in_deck ==
    current_slide_index > 0 /\ current_slide_index < total_slides
update_slide_display_without_room(idx) == ~room_context /\ InRange(idx)

\* next_slide: if current_slide_index < total_slides - 1
next_slide_guard == current_slide_index < total_slides - 1

\* previous_slide: if current_slide_index > 0
previous_slide_guard == current_slide_index > 0

\* goto_slide: if 1 <= slide_number <= total_slides
goto_slide_guard(slide_number) == 1 <= slide_number /\ slide_number <= total_slides

\* goto_slide: current_slide_index = slide_number - 1
goto_slide_target(slide_number) == slide_number - 1

\* update_slide_display reaches its await of set_attributes only with a room
\* context and a row at the cursor; otherwise it returns (or logs the
\* IndexError) without suspending
update_slide_display(idx) == room_context /\ InRange(idx)

\* the status string a tool returns after a move; reading
\* slides_data[current_slide_index] raises IndexError when out of range
MovedStatus(op, arg, idx) ==
    IF ~InRange(idx)
    THEN [kind |-> "IndexError", n |-> 0, total |-> 0]
    ELSE [kind |-> "now_on",
          n |-> IF op = "goto_slide" THEN arg ELSE idx + 1,
          total |-> total_slides]

\* the synchronous part of a tool call: test, cursor write, and the run of
\* update_slide_display up to its await
ToolCall(op, arg, guard, newIdx, refusal) ==
    LET call == [op |-> op, arg |-> arg, pre |-> current_slide_index,
                 post |-> current_slide_index',
                 total |-> total_slides, published |-> FALSE,
                 attrs |-> NoAttrs, status |-> NoStatus]
    IN
    /\ ToolIdle
    /\ ncalls' = ncalls + 1
    /\ undisturbed' = FALSE
    /\ narrated' = {}
    /\ advances' = IF op = "next_slide" /\ advances >= 0 THEN advances + 1 ELSE -1
    /\ IF guard
       THEN /\ current_slide_index' = newIdx
            /\ touched' = IF pc = "narrate" THEN "narrate" ELSE "other"
            /\ IF update_slide_display(newIdx)
               THEN tool' = [call EXCEPT !.published = TRUE,
                                         !.attrs = DisplayAttrs(newIdx),
                                         !.status = Pending]
               ELSE tool' = [call EXCEPT !.status = MovedStatus(op, arg, newIdx)]
       ELSE /\ UNCHANGED << current_slide_index, touched >>
            /\ tool' = [call EXCEPT !.status =
                          [kind |-> refusal, n |-> 0, total |-> total_slides]]
    /\ UNCHANGED << variant, total_slides, slides_data, room_context, pc, session,
                    slide, slide_context, attempt, speech_handle, drv,
                    only_timeouts, closings, ending >>

next_slide ==
    ToolCall("next_slide", 0, next_slide_guard, current_slide_index + 1,
             "already_last")

previous_slide ==
    ToolCall("previous_slide", 0, previous_slide_guard, current_slide_index - 1,
             "already_first")

goto_slide ==
    \E slide_number \in SlideNumbers :
        ToolCall("goto_slide", slide_number, goto_slide_guard(slide_number),
                 goto_slide_target(slide_number), "invalid")

\* the tool resumes after set_attributes returned or raised (the failure is
\* logged only), reads slides_data[current_slide_index] and returns
ToolReturn ==
    /\ tool.status.kind = "pending"
    /\ tool' = [tool EXCEPT !.status =
                  MovedStatus(tool.op, tool.arg, current_slide_index)]
    /\ UNCHANGED << variant, globals, pc, session, slide, slide_context, attempt,
                    speech_handle, ncalls, advances, drv, touched, only_timeouts,
                    undisturbed, narrated, closings, ending >>

\* a step of entrypoint leaves a suspended tool call as it is; the record of
\* a tool call that has returned is dropped
ToolKept == tool' = IF tool.status.kind = "pending" THEN tool ELSE NoTool

\* ============================================================= entrypoint
\* mutant: keep_alive swallows the CancelledError inside its loop and sleeps on
TryAwaitsWithoutKeepAlive ==
    {"connect", "sleep_metadata", "avatar_start", "session_start", "warmup",
     "publish", "narrate", "backoff", "pause", "final"}

\* the awaits of the try block, where a CancelledError can be delivered
TryAwaits == {"connect", "sleep_metadata", "avatar_start", "session_start",
              "warmup", "publish", "narrate", "backoff", "pause", "final",
              "keep_alive"}
\* the awaits of the finally block
CleanupAwaits == {"aclose", "disconnect"}

\* the locals of the slide loop and the history of the iteration in hand
iteration == << slide, slide_context, attempt, speech_handle, drv, touched,
                only_timeouts >>
\* what the session has done so far
record == << ncalls, undisturbed, narrated, closings >>

\* mutant: the room is disconnected without closing the session first
first_cleanup_await_disconnect(hasSession) == "disconnect"

\* finally: if session: await session.aclose(), then await disconnect()
first_cleanup_await(hasSession) == IF hasSession THEN "aclose" ELSE "disconnect"

\* finally: session.aclose() is awaited only when a session was built.  The
\* locals of the slide loop are dead from here on and are cleared.  cause
\* tells how the try block was left: "no_id" and "no_slides" are the two
\* returns, "error" is except Exception, "cancelled" is except CancelledError.
Cleanup(hasSession, cause) ==
    /\ pc' = first_cleanup_await(hasSession)
    /\ ending' = [NoEnding EXCEPT !.cause = cause]
    /\ session' = hasSession
    /\ slide' = 0
    /\ slide_context' = 0
    /\ attempt' = 0
    /\ speech_handle' = NoHandle
    /\ drv' = NoDrv
    /\ touched' = "none"
    /\ only_timeouts' = TRUE
    /\ advances' = -1
    /\ ToolKept

\* entrypoint is called: room_context = ctx, then await ctx.connect(...)
entrypoint ==
    /\ pc = "start"
    /\ room_context' = TRUE
    /\ pc' = "connect"
    /\ ToolKept
    /\ UNCHANGED << variant, current_slide_index, total_slides, slides_data,
                    session, advances, iteration, record, ending >>

\* ctx.connect returns, or raises into except Exception
connect ==
    /\ pc = "connect"
    /\ \/ /\ pc' = "sleep_metadata"
          /\ ToolKept
          /\ UNCHANGED << session, advances, iteration, ending >>
       \/ Cleanup(FALSE, "error")
    /\ UNCHANGED << variant, globals, record >>

\* mutant: an empty query result is not detected
not_slides_unchecked(slides) == FALSE

\* if not slides: return
not_slides(slides) == Len(slides) = 0

\* the attributes the slide loop passes to set_attributes for the slide it
\* read at index s
LoopAttrs(s) ==
    [current_slide_url |-> Row(s).image_url,
     current_slide_number |-> Row(s).slide_number,
     total_slides |-> total_slides]

\* after the sleep: the presentation id is looked up, the slides are queried
\* and the globals are set; create_llm, create_avatar and AgentSession run,
\* then avatar.start is awaited.  No id, no slides and a raising call all
\* leave through finally.
LoadDeck(store) ==
    /\ pc = "sleep_metadata"
    /\ \/ /\ \E cause \in {"no_id", "error"} : Cleanup(FALSE, cause)
          /\ UNCHANGED << current_slide_index, total_slides, slides_data >>
       \/ \E slides \in store :
            IF not_slides(slides)
            THEN /\ Cleanup(FALSE, "no_slides")
                 /\ UNCHANGED << current_slide_index, total_slides, slides_data >>
            ELSE /\ slides_data' = slides
                 /\ total_slides' = Len(slides)
                 /\ current_slide_index' = 0
                 /\ \/ Cleanup(FALSE, "error")
                    \/ /\ session' = TRUE
                       /\ pc' = "avatar_start"
                       /\ advances' = 0
                       /\ ToolKept
                       /\ UNCHANGED << iteration, ending >>
    /\ UNCHANGED << variant, room_context, record >>

\* the Deck Store holds any deck of Decks
load_deck == LoadDeck(Decks)

\* avatar.start returns or raises
avatar_start ==
    /\ pc = "avatar_start"
    /\ \/ /\ pc' = "session_start"
          /\ ToolKept
          /\ UNCHANGED << session, advances, iteration, ending >>
       \/ Cleanup(TRUE, "error")
    /\ UNCHANGED << variant, globals, record >>

\* mutant: the loop does not pass over a slide without an image
SkipNothing(c) == c

\* mutant: a slide without an image ends the loop (break for continue)
SkipRest(c) ==
    IF c < total_slides /\ Row(c).image_url = "" THEN total_slides ELSE c

\* the first index at or after c that holds a slide with an image, or
\* total_slides: the loop's "no image: current_slide_index += 1; continue"
\* runs without an await
RECURSIVE SkipMissing(_)
SkipMissing(c) ==
    IF c < total_slides /\ Row(c).image_url = "" THEN SkipMissing(c + 1) ELSE c

\* mutant: the closing remark is requested however the loop ended
AfterLoopAlwaysCloses(c) ==
    /\ pc' = "final"
    /\ closings' = closings + 1

\* after the loop: the closing remark is requested when the cursor is past
\* the end, otherwise keep_alive is entered at once
AfterLoop(c) ==
    IF c >= total_slides
    THEN /\ pc' = "final"
         /\ closings' = closings + 1
    ELSE /\ pc' = "keep_alive"
         /\ UNCHANGED closings

\* mutant: the loop carries its own index from one iteration to the next
read_slide_cached(c) == slide + 1

\* slide = slides_data[current_slide_index]: the index the loop top reads is
\* the value the cursor has at that moment
read_slide(c) == c

\* the top of the while loop entered with cursor value c: slides without an
\* image are passed over, then either the loop ends or the slide at the cursor is
\* read and set_attributes is awaited
LoopHead(c, event) ==
    LET c2 == SkipMissing(c) IN
    /\ current_slide_index' = c2
    /\ advances' = IF c2 = current_slide_index THEN advances ELSE -1
    /\ drv' = event
    /\ touched' = "none"
    /\ only_timeouts' = TRUE
    /\ attempt' = 0
    /\ speech_handle' = NoHandle
    /\ slide_context' = 0
    /\ ToolKept
    /\ UNCHANGED ending
    /\ IF c2 < total_slides
       THEN /\ slide' = read_slide(c2)
            /\ pc' = "publish"
            /\ UNCHANGED closings
       ELSE /\ slide' = 0
            /\ AfterLoop(c2)

\* mutant: the interruption check is missing
InterruptedIgnored(handle) == FALSE

\* the interruption check: speech_handle and speech_handle.interrupted
Interrupted(handle) == handle.exists /\ handle.interrupted

\* what a step of the loop did with the slide it had selected
Event(ev, handle, to, tries, timed) ==
    [ev |-> ev, interrupted |-> Interrupted(handle), idx |-> slide,
     from |-> current_slide_index, to |-> to, tries |-> tries,
     only_timeouts |-> timed, touched |-> touched]

\* mutant: the loop goes on without moving the cursor
AdvanceStays == current_slide_index

\* the write the loop makes after a slide: current_slide_index += 1
Advance == current_slide_index + 1

\* session.start returns or raises; agent.py enters the loop at once,
\* agent_temp.py first sleeps 5.0
session_start ==
    /\ pc = "session_start"
    /\ \/ /\ variant = "agent"
          /\ LoopHead(current_slide_index, NoDrv)
          /\ UNCHANGED session
       \/ /\ variant = "agent_temp"
          /\ pc' = "warmup"
          /\ ToolKept
          /\ UNCHANGED << current_slide_index, session, advances, iteration,
                          closings, ending >>
       \/ /\ Cleanup(TRUE, "error")
          /\ UNCHANGED << current_slide_index, closings >>
    /\ UNCHANGED << variant, total_slides, slides_data, room_context, ncalls,
                    undisturbed, narrated >>

\* agent_temp.py: the warm-up sleep ends and the loop is entered
warmup ==
    /\ pc = "warmup"
    /\ LoopHead(current_slide_index, NoDrv)
    /\ UNCHANGED << variant, total_slides, slides_data, room_context, session,
                    ncalls, undisturbed, narrated >>

\* the ordinal the narration instruction asks to present: agent.py names
\* slide_no of the slide read at the loop top, agent_temp.py marks the slide
\* at the cursor as CURRENT (get_slide_context(current_slide_index, ...))
Instruction ==
    IF variant = "agent"
    THEN Row(slide).slide_number
    ELSE get_slide_context(current_slide_index, slides_data, window).current

\* set_attributes of the loop returns: the instruction is built and the
\* first generate_reply is made; or it raises: the slide is passed over
publish ==
    /\ pc = "publish"
    /\ \/ IF variant = "agent_temp" /\ ~InRange(current_slide_index)
          THEN /\ LoopHead(Advance, Event("error", NoHandle, Advance, 0, TRUE))
               /\ UNCHANGED << undisturbed, narrated >>
          ELSE /\ slide_context' = Instruction
               /\ narrated' = IF undisturbed THEN narrated \cup {Instruction} ELSE {}
               /\ attempt' = 0
               /\ speech_handle' = NoHandle
               /\ pc' = "narrate"
               /\ drv' = NoDrv
               /\ ToolKept
               /\ UNCHANGED << current_slide_index, advances, slide, touched,
                               only_timeouts, undisturbed, closings, ending >>
       \/ /\ LoopHead(Advance,
                      Event("publish_failed", NoHandle, Advance, 0, TRUE))
          /\ undisturbed' = FALSE
          /\ narrated' = {}
    /\ UNCHANGED << variant, total_slides, slides_data, room_context, session,
                    ncalls >>

\* how an attempt can end: wait_for_playout returned, it raised, the
\* generate_reply call itself raised, or (agent_temp.py) wait_for timed out.
\* wait_for cancels the wait, and nothing in the loop cancels the speech act:
\* after a timeout the act has ended with the wait or stays open (stays)
Outcomes ==
    IF variant = "agent"
    THEN {"played", "error", "gen_error"}
    ELSE {"played", "error", "gen_error", "timeout"}

\* mutant: max_retries counts the retries, not the attempts
is_last_attempt_after_retries == attempt = max_retries

\* range(max_retries): the attempt in hand is the last one
is_last_attempt == attempt = max_retries - 1

\* an attempt ends.  played: the interruption check, then the pause.
\* A failed attempt that is not the last: the backoff sleep.  The last
\* failed attempt: agent.py re-raises into the slide's except clause, which
\* advances; agent_temp.py falls to the interruption check and advances
\* when it is not interrupted.
narrate ==
    /\ pc = "narrate"
    /\ \E outcome \in Outcomes, interrupted \in BOOLEAN, stays \in BOOLEAN :
         LET handle == IF outcome = "gen_error"
                       THEN speech_handle
                       ELSE [exists |-> TRUE, interrupted |-> interrupted,
                             open |-> stays]
             timed == only_timeouts /\ outcome \in {"timeout", "played"}
             stay(ev) ==
                 /\ drv' = Event(ev, handle, current_slide_index, attempt + 1, timed)
                 /\ speech_handle' = handle
                 /\ only_timeouts' = timed
                 /\ ToolKept
                 /\ UNCHANGED << current_slide_index, advances, slide,
                                 slide_context, attempt, touched, ending >>
         IN
         /\ outcome = "gen_error" => ~interrupted
         /\ outcome # "timeout" => ~stays
         /\ IF outcome # "played" /\ ~is_last_attempt
            THEN /\ pc' = "backoff"
                 /\ stay("retry")
                 /\ UNCHANGED closings
            ELSE IF outcome # "played" /\ variant = "agent"
            THEN LoopHead(Advance, Event("failed", handle, Advance, attempt + 1, timed))
            ELSE IF Interrupted(handle)
            THEN /\ AfterLoop(current_slide_index)
                 /\ stay(IF outcome = "played" THEN "interrupted"
                                              ELSE "interrupted_failed")
            ELSE IF outcome = "played"
            THEN /\ pc' = "pause"
                 /\ stay("played")
                 /\ UNCHANGED closings
            ELSE LoopHead(Advance, Event("failed", handle, Advance, attempt + 1, timed))
    /\ UNCHANGED << variant, total_slides, slides_data, room_context, session,
                    ncalls, undisturbed, narrated >>

\* mutant: the retry path moves the cursor
backoff_moves_cursor ==
    /\ pc = "backoff"
    /\ attempt' = attempt + 1
    /\ pc' = "narrate"
    /\ drv' = NoDrv
    /\ ToolKept
    /\ current_slide_index' = Min(current_slide_index + 1, total_slides)
    /\ UNCHANGED << variant, total_slides, slides_data, room_context, session,
                    advances, slide, slide_context, speech_handle, touched,
                    only_timeouts, record, ending >>

\* the backoff sleep ends: the next attempt calls generate_reply
backoff ==
    /\ pc = "backoff"
    /\ attempt' = attempt + 1
    /\ pc' = "narrate"
    /\ drv' = NoDrv
    /\ ToolKept
    /\ UNCHANGED << variant, globals, session, advances, slide, slide_context,
                    speech_handle, touched, only_timeouts, record, ending >>

\* the pause after a played slide ends: current_slide_index += 1
pause ==
    /\ pc = "pause"
    /\ LoopHead(Advance, Event("completed", speech_handle, Advance, attempt + 1,
                               only_timeouts))
    /\ UNCHANGED << variant, total_slides, slides_data, room_context, session,
                    ncalls, undisturbed, narrated >>

\* mutant: after the closing remark the while loop is entered again when a
\* tool has moved the cursor back into the deck
final_resumes ==
    /\ pc = "final"
    /\ pc' = IF current_slide_index < total_slides THEN "publish"
                                                   ELSE "keep_alive"
    /\ ToolKept
    /\ UNCHANGED << variant, globals, session, advances, iteration, ncalls,
                    undisturbed, narrated, closings, ending >>

\* the closing remark is played, fails or times out: keep_alive is entered
final ==
    /\ pc = "final"
    /\ pc' = "keep_alive"
    /\ ToolKept
    /\ UNCHANGED << variant, globals, session, advances, iteration, ncalls,
                    undisturbed, narrated, closings, ending >>

\* mutant: the slide's handler advances the cursor on the way out
cancel_after_advance ==
    /\ pc \in TryAwaits
    /\ Cleanup(session, "cancelled")
    /\ current_slide_index' =
         IF pc \in {"narrate", "backoff", "pause"} THEN current_slide_index + 1
                                                  ELSE current_slide_index
    /\ UNCHANGED << variant, total_slides, slides_data, room_context, record >>

\* a CancelledError is delivered at an await of the try block (keep_alive
\* swallows it and returns): entrypoint goes to finally
cancel ==
    /\ pc \in TryAwaits
    /\ Cleanup(session, "cancelled")
    /\ UNCHANGED << variant, globals, record >>

\* session.aclose() returns, or raises an Exception that is logged; either
\* way the finally block goes on to the disconnect
aclose ==
    /\ pc = "aclose"
    /\ \E failed \in BOOLEAN : ending' = [ending EXCEPT !.close_failed = failed]
    /\ pc' = "disconnect"
    /\ ToolKept
    /\ UNCHANGED << variant, globals, session, advances, iteration, ncalls,
                    undisturbed, narrated, closings >>

\* mutant: the reset sits inside the try block of the disconnect
reset_unless_failed(failed) ==
    IF failed
    THEN [current_slide_index |-> current_slide_index, total_slides |-> total_slides,
          slides_data |-> slides_data, room_context |-> room_context]
    ELSE [current_slide_index |-> 0, total_slides |-> 0, slides_data |-> << >>,
          room_context |-> FALSE]

\* the reset of the globals follows the try/except of the disconnect and
\* runs whether or not the disconnect failed
reset(failed) ==
    [current_slide_index |-> 0, total_slides |-> 0, slides_data |-> << >>,
     room_context |-> FALSE]

\* ctx.room.disconnect() returns or raises an Exception (logged); the
\* globals are reset and entrypoint returns
disconnect ==
    /\ pc = "disconnect"
    /\ \E failed \in BOOLEAN :
         /\ ending' = [ending EXCEPT !.disconnect_failed = failed]
         /\ current_slide_index' = reset(failed).current_slide_index
         /\ total_slides' = reset(failed).total_slides
         /\ slides_data' = reset(failed).slides_data
         /\ room_context' = reset(failed).room_context
    /\ pc' = "done"
    /\ ToolKept
    /\ UNCHANGED << variant, session, advances, iteration, record >>

\* a CancelledError delivered at an await of the finally block is not an
\* Exception: it leaves entrypoint before the globals are reset
cancel_cleanup ==
    /\ pc \in CleanupAwaits
    /\ pc' = "cancelled"
    /\ ToolKept
    /\ UNCHANGED << variant, globals, session, advances, iteration, record,
                    ending >>

Next ==
    \/ next_slide
    \/ previous_slide
    \/ goto_slide
    \/ ToolReturn
    \/ entrypoint
    \/ connect
    \/ load_deck
    \/ avatar_start
    \/ session_start
    \/ warmup
    \/ publish
    \/ narrate
    \/ backoff
    \/ pause
    \/ final
    \/ cancel
    \/ aclose
    \/ disconnect
    \/ cancel_cleanup

Spec == Init /\ [][Next]_vars

\* the scenario of a deck of five slides, each with an image
ScenarioDeck == [i \in 1..5 |-> SlideRow(i, "img")]
load_scenario_deck == LoadDeck({ScenarioDeck})

NextScenario ==
    \/ next_slide
    \/ previous_slide
    \/ goto_slide
    \/ ToolReturn
    \/ entrypoint
    \/ connect
    \/ load_scenario_deck
    \/ avatar_start
    \/ session_start
    \/ warmup
    \/ publish
    \/ narrate
    \/ backoff
    \/ pause
    \/ final
    \/ cancel
    \/ aclose
    \/ disconnect
    \/ cancel_cleanup

SpecScenario == Init /\ [][NextScenario]_vars

\* entrypoint left to itself: no tool is called and no CancelledError arrives
NextAuto ==
    \/ entrypoint
    \/ connect
    \/ load_deck
    \/ avatar_start
    \/ session_start
    \/ warmup
    \/ publish
    \/ narrate
    \/ backoff
    \/ pause
    \/ final
    \/ aclose
    \/ disconnect

\* the awaits that are certain to return: the asyncio.sleep calls (warmup,
\* backoff, pause), the room and session calls of the startup and of publish,
\* and in agent_temp.py the two waits on a speech act, which asyncio.wait_for
\* ends after 25 and 15 seconds. agent.py awaits wait_for_playout() and the
\* closing remark without a timeout: nothing makes those two awaits return
AwaitsReturn ==
    /\ WF_vars(entrypoint)
    /\ WF_vars(connect)
    /\ WF_vars(load_deck)
    /\ WF_vars(avatar_start)
    /\ WF_vars(session_start)
    /\ WF_vars(warmup)
    /\ WF_vars(publish)
    /\ WF_vars(backoff)
    /\ WF_vars(pause)
    /\ WF_vars(variant = "agent_temp" /\ narrate)
    /\ WF_vars(variant = "agent_temp" /\ final)
    /\ WF_vars(aclose)
    /\ WF_vars(disconnect)

SpecAuto == Init /\ [][NextAuto]_vars /\ AwaitsReturn

\* ================================================================= claims
\* the tool record describes a call of op
Called(op) == tool.op = op
\* the slide loop has halted on an interruption
Halted == drv.ev \in {"interrupted", "interrupted_failed"}

\* C1: goto_slide(k) with k < 1 or k > N leaves the cursor as it was, calls
\* set_attributes not at all and returns the invalid-number status
C1_GotoOutOfRange ==
    Called("goto_slide") /\ (tool.arg < 1 \/ tool.arg > tool.total)
        => /\ tool.post = tool.pre
           /\ current_slide_index = tool.pre
           /\ ~tool.published
           /\ tool.status = [kind |-> "invalid", n |-> 0, total |-> tool.total]

C1_Witness ==
    /\ Called("goto_slide")
    /\ tool.total >= 1
    /\ tool.arg > tool.total
    /\ tool.status.kind = "invalid"

\* C2: next_slide moves the cursor from i to i+1 when i < N-1; otherwise it
\* leaves the cursor as it was and returns the already-at-last-slide status;
\* a call never moves the cursor beyond N-1
C2_NextBounded ==
    Called("next_slide")
        => /\ IF tool.pre < tool.total - 1
              THEN tool.post = tool.pre + 1
              ELSE /\ tool.post = tool.pre
                   /\ current_slide_index = tool.pre
                   /\ tool.status.kind = "already_last"
           /\ tool.post # tool.pre => tool.post <= tool.total - 1

C2_Witness ==
    /\ Called("next_slide")
    /\ tool.total >= 2
    /\ tool.pre = tool.total - 1
    /\ tool.status.kind = "already_last"

\* C3 as stated: N-1 calls of next_slide from the starting position reach
\* the past-end position N
C3_AdvancesReachPastEnd ==
    advances >= 0 /\ advances = total_slides - 1
        => current_slide_index = total_slides

\* C3 as amended: the starting position is 0, and after k calls of next_slide
\* with no other write of the cursor the cursor is min(k, N-1): N-1 calls
\* reach the last slide, index N-1, and further calls change nothing
C3_AdvancesReachLastSlide ==
    advances >= 0 => current_slide_index = Min(advances, total_slides - 1)

C3_Witness ==
    /\ total_slides >= 2
    /\ advances = total_slides
    /\ current_slide_index = total_slides - 1
    /\ tool.status.kind = "already_last"

\* C4: previous_slide moves the cursor from i to i-1 when i > 0; at i = 0 it
\* leaves the cursor as it was, calls set_attributes not at all and returns
\* the already-at-first-slide status; the cursor is never negative
C4_PreviousBounded ==
    /\ current_slide_index >= 0
    /\ Called("previous_slide")
         => /\ tool.post >= 0
            /\ IF tool.pre > 0
               THEN tool.post = tool.pre - 1
               ELSE /\ tool.post = tool.pre
                    /\ current_slide_index = tool.pre
                    /\ ~tool.published
                    /\ tool.status.kind = "already_first"

C4_Witness ==
    /\ Called("previous_slide")
    /\ tool.total >= 1
    /\ tool.pre = 0
    /\ tool.status.kind = "already_first"

\* C5: goto_slide(k) with 1 <= k <= N sets the cursor to k-1 whatever it was
\* before, the past-end value N included
C5_GotoSetsCursor ==
    Called("goto_slide") /\ 1 <= tool.arg /\ tool.arg <= tool.total
        => /\ tool.post = tool.arg - 1
           /\ tool.status.kind \in {"pending", "now_on", "IndexError"}

C5_Witness ==
    /\ Called("goto_slide")
    /\ tool.total >= 1
    /\ tool.pre = tool.total
    /\ tool.post = tool.arg - 1
    /\ tool.post < tool.pre

\* C6 as stated: when the played narration of the slide at index i reports
\* an interruption the loop halts, writes no cursor, and the cursor is i
C6_HaltsAtSlide ==
    drv.ev = "interrupted"
        => /\ pc = "keep_alive"
           /\ drv.to = drv.from
           /\ drv.from = drv.idx

\* C6 as amended: the loop never goes on to the pause after a narration that
\* reports an interruption; it halts, writes no cursor, requests no closing
\* remark, and the cursor is i unless a tool moved it during the iteration
C6_HaltsWithoutAdvance ==
    /\ pc = "pause" => ~(speech_handle.exists /\ speech_handle.interrupted)
    /\ drv.ev = "interrupted"
         => /\ pc = "keep_alive"
            /\ closings = 0
            /\ drv.interrupted
            /\ drv.to = drv.from
            /\ drv.touched = "none" => drv.from = drv.idx

C6_Witness ==
    /\ drv.ev = "interrupted"
    /\ drv.touched = "none"
    /\ pc = "keep_alive"
    /\ current_slide_index = drv.idx

\* the retries of a slide are exhausted and every attempt timed out
TimedOutEveryAttempt ==
    /\ variant = "agent_temp"
    /\ drv.ev \in {"failed", "interrupted_failed"}
    /\ drv.only_timeouts

\* C7 as stated: such a slide was attempted 1 + max_retries times and the
\* loop then advanced the cursor by one
C7_OnePlusMaxRetries ==
    TimedOutEveryAttempt
        => /\ drv.tries = 1 + max_retries
           /\ drv.to = drv.from + 1

\* C7 as amended: such a slide was attempted exactly max_retries times (2),
\* and the loop then advanced the cursor by one unless the last speech act
\* reports an interruption, in which case it halted without a cursor write
C7_ExactlyMaxRetries ==
    /\ pc \in {"narrate", "backoff"} => attempt < max_retries
    /\ TimedOutEveryAttempt
         => /\ drv.tries = max_retries
            /\ IF drv.interrupted
               THEN drv.ev = "interrupted_failed" /\ drv.to = drv.from
               ELSE drv.ev = "failed" /\ drv.to = drv.from + 1

C7_Witness ==
    /\ TimedOutEveryAttempt
    /\ drv.ev = "failed"
    /\ drv.tries = max_retries_temp
    /\ drv.to = drv.from + 1

\* C8: once entrypoint has returned, by whatever path, the cursor is 0, the
\* deck is empty, total_slides is 0 and room_context is None
C8_TeardownResets ==
    pc \in {"done", "cancelled"}
        => /\ current_slide_index = 0
           /\ slides_data = << >>
           /\ total_slides = 0
           /\ ~room_context

\* C9: deck of five; goto_slide(4) is the only tool call and is made while
\* slide 1 is narrated; the narration is played without interruption: the
\* next iteration reads the slide at index 3
C9_JumpRedirectsNextIteration ==
    ( /\ slides_data = ScenarioDeck
      /\ ncalls = 1
      /\ pc = "publish"
      /\ drv.ev = "completed"
      /\ drv.idx = 0
      /\ drv.touched = "narrate"
      /\ drv.from = 3 )
        => slide = 3

\* the scenario of a deck of three slides, the second without an image, with
\* no tool call and no failed publish so far
ScenarioSkip ==
    /\ slides_data = << SlideRow(1, "img"), SlideRow(2, ""), SlideRow(3, "img") >>
    /\ undisturbed

\* C10: in that scenario no narration is ever requested for slide 2, slide 3
\* is narrated only after slide 1, the closing remark is requested at most
\* once and only after slides 1 and 3; and when keep_alive is entered with no
\* interruption, slides 1 and 3 were narrated and the closing remark was
\* requested exactly once
C10_SkipScenario ==
    ScenarioSkip
        => /\ 2 \notin narrated
           /\ 3 \in narrated => 1 \in narrated
           /\ closings <= 1
           /\ closings = 1 => narrated = {1, 3}
           /\ pc = "final" => closings = 1
           /\ (pc = "keep_alive" /\ ~Halted) => (narrated = {1, 3} /\ closings = 1)

C10_Witness ==
    /\ ScenarioSkip
    /\ pc = "keep_alive"
    /\ ~Halted
    /\ narrated = {1, 3}
    /\ closings = 1

\* the awaits at which the slide loop is suspended
Presenting == {"publish", "narrate", "backoff", "pause"}
\* the awaits of the finally block and the two ways entrypoint ends
TornDown == {"aclose", "disconnect", "done", "cancelled"}
\* the statuses of a command that changed nothing
Refusals == {"already_last", "already_first", "invalid"}

\* C11: while the slide loop runs, every change of the cursor is made by a
\* call of next_slide, previous_slide or goto_slide
C11_OnlyCommandsWriteCursor ==
    [][ (pc \in Presenting /\ current_slide_index' # current_slide_index)
           => ncalls' = ncalls + 1 ]_vars

\* C12: every call of a navigation tool returns a status string, whatever
\* the slide loop or the teardown did while the call was suspended
C12_CommandsNeverError ==
    tool.op # "none"
        => tool.status.kind \in {"pending", "now_on"} \cup Refusals

\* C13: when set_attributes fails for the slide the loop has read, the loop
\* still requests the narration of that slide before it advances
C13_PublishFailureStillNarrates ==
    drv.ev = "publish_failed" => drv.tries >= 1

\* C14: the closing remark is requested exactly once when the loop ends with
\* the cursor past the end and never when it ends on an interruption; in both
\* cases keep_alive is entered
C14_ClosingOnceOnExhaustion ==
    /\ closings <= 1
    /\ pc \in Presenting => closings = 0
    /\ pc = "final" => closings = 1 /\ ~Halted
    /\ Halted => pc = "keep_alive" /\ closings = 0
    /\ (pc = "keep_alive" /\ ~Halted)
         => closings = 1 /\ current_slide_index <= total_slides

C14_Witness ==
    /\ pc = "keep_alive"
    /\ drv.ev = "completed"
    /\ closings = 1
    /\ current_slide_index = total_slides
    /\ ncalls = 0

\* C15: whenever a session was built, the step that issues the disconnect is
\* the return or the failure of session.aclose(); without a session the
\* disconnect is the first await of the finally block
C15_CloseBeforeDisconnect ==
    [][ (pc' = "disconnect" /\ pc # "disconnect")
           => IF session' THEN pc = "aclose" ELSE ~session ]_vars

C15_Witness ==
    /\ pc = "disconnect"
    /\ session
    /\ ending.cause = "cancelled"
    /\ ending.close_failed

\* C16: a failed session.aclose() is followed by the disconnect, and when
\* entrypoint returns after a failed aclose, a failed disconnect or both, the
\* four globals hold their initial values
C16_FailedTeardownStillResets ==
    /\ ending.close_failed => pc \in {"disconnect", "done", "cancelled"}
    /\ (pc = "done" /\ (ending.close_failed \/ ending.disconnect_failed))
         => /\ current_slide_index = 0
            /\ total_slides = 0
            /\ slides_data = << >>
            /\ ~room_context

C16_Witness ==
    /\ pc = "done"
    /\ ending.close_failed
    /\ ending.disconnect_failed
    /\ total_slides = 0
    /\ ~room_context

\* entrypoint returned early: no presentation id, or no slides
StartupFailed == ending.cause \in {"no_id", "no_slides"}

\* C17: after a return for a missing presentation id or an empty deck no
\* session exists, no deck is loaded, the loop is never entered, nothing is
\* published or narrated, and the finally block runs; a session is built only
\* over a deck that is not empty
C17_StartupFailureAborts ==
    /\ (session /\ pc \notin TornDown) => total_slides >= 1
    /\ StartupFailed
         => /\ pc \in {"disconnect", "done", "cancelled"}
            /\ ~session
            /\ total_slides = 0
            /\ slides_data = << >>
            /\ drv = NoDrv
            /\ narrated = {}
            /\ closings = 0
            /\ ~tool.published
            /\ pc = "done" => ~room_context

C17_Witness ==
    /\ ending.cause = "no_slides"
    /\ pc = "done"
    /\ ncalls >= 1
    /\ ~room_context

\* the loop went on after the slide: the next slide is being published, or
\* the closing remark was requested
WentOn == pc \in {"publish", "final"} \/ (pc = "keep_alive" /\ closings = 1)

\* C18 as stated: when every attempt for a slide failed, the loop goes on: it
\* advances the cursor by one and publishes the next slide or requests the
\* closing remark
C18_FailedSlideNeverEndsLoop ==
    drv.ev \in {"failed", "interrupted_failed"}
        => /\ WentOn
           /\ drv.to = drv.from + 1

\* C18 as amended: the same, unless (agent_temp.py) the last speech handle
\* reports an interruption: then the loop ends without a cursor write and
\* keep_alive is entered
C18_FailedSlideAdvancesUnlessInterrupted ==
    /\ drv.ev = "failed"
         => /\ WentOn
            /\ drv.to = drv.from + 1
            /\ drv.tries = max_retries
            /\ variant = "agent_temp" => ~drv.interrupted
    /\ drv.ev = "interrupted_failed"
         => /\ variant = "agent_temp"
            /\ drv.interrupted
            /\ drv.tries = max_retries
            /\ pc = "keep_alive"
            /\ drv.to = drv.from

C18_Witness ==
    /\ drv.ev = "failed"
    /\ variant = "agent"
    /\ pc = "final"
    /\ drv.to = total_slides
    /\ current_slide_index = total_slides

\* C19: a command that moved the cursor has called set_attributes with the
\* image, the ordinal and the total of the slide it moved to, a refused
\* command has called nothing; and a write of the slide loop that leaves the
\* cursor on a slide is followed at once by the set_attributes call for the
\* slide at the new cursor
C19_MutationPublishes ==
    [][ /\ (tool.op # "none")'
           => IF (tool.status.kind \in Refusals)'
              THEN (~tool.published /\ tool.post = tool.pre)'
              ELSE /\ (tool.published)'
                   /\ (tool.attrs.current_slide_number = tool.post + 1)'
                   /\ (tool.attrs.total_slides = tool.total)'
                   /\ (InRange(tool.post) /\ tool.status.kind = "pending"
                         => tool.attrs.current_slide_url = Row(tool.post).image_url)'
        /\ ( /\ ncalls' = ncalls
             /\ current_slide_index' # current_slide_index
             /\ current_slide_index' < total_slides' )
           => /\ pc' = "publish"
              /\ slide' = current_slide_index'
              /\ LoopAttrs(slide') = DisplayAttrs(current_slide_index') ]_vars

C19_Witness ==
    /\ pc = "publish"
    /\ drv.ev = "completed"
    /\ slide = current_slide_index
    /\ slide >= 1
    /\ ncalls = 0

\* the states in which the slide loop is suspended or has ended
DriverStates == Presenting \cup {"final", "keep_alive"}

\* C20: in every state of the slide loop, and after it ended, a call of a
\* tool whose test passes moves the cursor and calls set_attributes, and
\* leaves the loop where it is
C20_CommandsLive ==
    [][ (ncalls' = ncalls + 1 /\ pc \in DriverStates)
           => /\ (tool'.op = "next_slide" /\ current_slide_index < total_slides - 1)
                 => /\ current_slide_index' = current_slide_index + 1
                    /\ tool'.published
              /\ (tool'.op = "previous_slide" /\ current_slide_index > 0)
                 => /\ current_slide_index' = current_slide_index - 1
                    /\ tool'.published
              /\ (tool'.op = "goto_slide" /\ 1 <= tool'.arg
                    /\ tool'.arg <= total_slides)
                 => /\ current_slide_index' = tool'.arg - 1
                    /\ tool'.published
              /\ pc' = pc ]_vars

C20_Witness ==
    /\ pc = "keep_alive"
    /\ closings = 1
    /\ Called("previous_slide")
    /\ tool.pre = tool.total
    /\ tool.post = tool.total - 1
    /\ tool.published

\* the SessionPhase a program position belongs to, as its place in the order
\* connecting (0), loading_deck (1), presenting (2), idle_qa (3), terminated (4)
PhaseRank(p) ==
    CASE p \in {"start", "connect"} -> 0
      [] p \in {"sleep_metadata", "avatar_start", "session_start", "warmup"} -> 1
      [] p \in Presenting \cup {"final"} -> 2
      [] p = "keep_alive" -> 3
      [] OTHER -> 4

\* C21: the session phase never goes back: every step keeps the phase or moves
\* it forward in the order connecting, loading_deck, presenting, idle_qa,
\* terminated; terminated is never left; in every earlier phase, at each
\* await where a tool is called, the cancellation that leads to terminated
\* can be delivered
C21_PhaseMonotonic ==
    [][ /\ PhaseRank(pc) <= PhaseRank(pc')
        /\ pc \in TornDown => pc' \in TornDown
        /\ PhaseRank(pc') = 3 => PhaseRank(pc) \in {2, 3}
        /\ (ncalls' = ncalls + 1 /\ PhaseRank(pc) < 4 /\ pc # "start")
              => ENABLED cancel ]_vars

C21_Witness ==
    /\ pc = "aclose"
    /\ ending.cause = "cancelled"
    /\ closings = 1
    /\ session

\* C22: with or without a deck, after any interleaving of the three commands
\* and the loop's own increments, the cursor is an index of the deck or the
\* past-end value: 0 <= current_slide_index <= total_slides
C22_CursorInRange ==
    /\ 0 <= current_slide_index
    /\ current_slide_index <= total_slides

C22_Witness ==
    /\ current_slide_index = total_slides
    /\ total_slides = MaxSlides
    /\ pc = "keep_alive"
    /\ closings = 1
    /\ ~undisturbed
    /\ Called("next_slide")
    /\ tool.post = tool.pre

\* a step taken by entrypoint: no tool is called and no suspended tool returns
DriverStep ==
    /\ ncalls' = ncalls
    /\ ~(tool.status.kind = "pending" /\ tool'.status.kind # "pending")

\* the steps that end at the top of the while loop with a slide to present
LoopTop == DriverStep /\ pc' = "publish" /\ vars' # vars

\* C23: the slide an iteration presents is the slide at the value the cursor
\* has at the loop top; that value comes from the cursor as the commands left
\* it (plus the loop's increment after an iteration), not from the index of
\* the iteration before
C23_CursorReadFresh ==
    [][ LoopTop
          => /\ slide' = current_slide_index'
             /\ slide' >= current_slide_index
                            + (IF pc \in {"warmup", "session_start"} THEN 0 ELSE 1)
             /\ \A i \in 0..(MaxSlides + 1) :
                  (/\ current_slide_index
                        + (IF pc \in {"warmup", "session_start"} THEN 0 ELSE 1) <= i
                   /\ i < slide')
                  => Row(i).image_url = "" ]_vars

C23_Witness ==
    /\ pc = "publish"
    /\ drv.ev = "completed"
    /\ drv.touched = "narrate"
    /\ slide = current_slide_index
    /\ slide = drv.from + 1
    /\ drv.from < drv.idx

\* C24: when every attempt for a slide has failed and the last speech handle
\* reports an interruption, the loop ends there: the cursor is not advanced
\* and keep_alive is entered
C24_FailedActInterruptionStops ==
    (drv.ev \in {"failed", "interrupted_failed"} /\ drv.interrupted)
       => /\ drv.ev = "interrupted_failed"
          /\ drv.to = drv.from
          /\ pc \in {"keep_alive"} \cup TornDown

\* C25: a slide without an image is never published or narrated; the loop top
\* passes over each such slide with one increment and stops at the first slide
\* with an image, or past the end, where the closing remark follows
C25_SkipWithAdvance ==
    [][ /\ pc \in Presenting => Row(slide).image_url # ""
        /\ (DriverStep /\ vars' # vars /\ pc' \in {"publish", "final"}
              /\ pc \in {"warmup", "session_start", "publish", "narrate", "pause"})
             => LET c == current_slide_index
                           + (IF pc \in {"warmup", "session_start"} THEN 0 ELSE 1)
                IN /\ c <= current_slide_index'
                   /\ \A i \in 0..(MaxSlides + 1) :
                        (c <= i /\ i < current_slide_index')
                           => Row(i).image_url = ""
                   /\ narrated' \subseteq narrated
                   /\ IF current_slide_index' < total_slides
                      THEN /\ Row(current_slide_index').image_url # ""
                           /\ pc' = "publish"
                           /\ closings' = closings
                      ELSE /\ current_slide_index' = total_slides
                           /\ pc' = "final"
                           /\ closings' = closings + 1 ]_vars

C25_Witness ==
    /\ pc = "final"
    /\ closings = 1
    /\ undisturbed
    /\ narrated = {}
    /\ total_slides >= 1
    /\ current_slide_index = total_slides
    /\ \A i \in 0..(total_slides - 1) : Row(i).image_url = ""

\* C26: in agent_temp.py an attempt that ends without playout (timeout or
\* exception) and the backoff sleep after it write no global: cursor, deck and
\* total are as before; from the first attempt to the last the loop writes the
\* cursor only when the attempts are exhausted, and then adds exactly one
C26_TimeoutKeepsSharedState ==
    [][ (variant = "agent_temp" /\ DriverStep /\ pc \in {"narrate", "backoff"}
           /\ ending'.cause = "none")
          => /\ total_slides' = total_slides
             /\ slides_data' = slides_data
             /\ room_context' = room_context
             /\ IF pc = "narrate" /\ drv'.ev = "failed"
                THEN /\ drv'.tries = max_retries_temp
                     /\ drv'.from = current_slide_index
                     /\ drv'.to = current_slide_index + 1
                     /\ current_slide_index' >= drv'.to
                ELSE current_slide_index' = current_slide_index ]_vars

C26_Witness ==
    /\ variant = "agent_temp"
    /\ pc = "narrate"
    /\ attempt = 1
    /\ only_timeouts
    /\ speech_handle.exists
    /\ undisturbed
    /\ current_slide_index = slide

\* C28: a CancelledError delivered during narration, backoff or pause goes
\* straight to the finally block: the step writes no global, sends no
\* instruction and no closing remark, and from then on entrypoint is only in
\* its cleanup, where the cursor is kept or reset to 0
C28_CancelAbandonsNarration ==
    [][ /\ (pc \in {"narrate", "backoff", "pause"} /\ ending.cause = "none"
              /\ ending'.cause = "cancelled")
           => /\ pc' = "aclose"
              /\ current_slide_index' = current_slide_index
              /\ total_slides' = total_slides
              /\ slides_data' = slides_data
              /\ narrated' = narrated
              /\ closings' = closings
              /\ speech_handle' = NoHandle
        /\ (ending.cause = "cancelled" /\ DriverStep)
           => /\ pc' \in TornDown
              /\ narrated' = narrated
              /\ closings' = closings
              /\ current_slide_index' \in {current_slide_index, 0} ]_vars

C28_Witness ==
    /\ pc = "aclose"
    /\ ending.cause = "cancelled"
    /\ closings = 0
    /\ narrated # {}
    /\ 0 < current_slide_index
    /\ current_slide_index < total_slides

\* C29: in agent_temp.py no speech act is submitted while an earlier one is
\* open: at every step that calls generate_reply for an attempt, the speech
\* act of the attempt before it is not open
C29_OneOpenNarration ==
    [][ (variant = "agent_temp" /\ DriverStep /\ pc \in {"publish", "backoff"}
           /\ pc' = "narrate")
          => ~speech_handle.open ]_vars

\* C30: in agent_temp.py the slide marked CURRENT in the instruction of an
\* iteration is the slide whose image the iteration published
C30_PublishedIsNarrated ==
    (variant = "agent_temp" /\ pc \in {"narrate", "backoff", "pause"})
       => slide_context = slide + 1

\* C27: left to itself, the loop ends: from every position of the loop and of
\* the closing remark entrypoint reaches keep_alive (or its cleanup), because
\* every wait on a speech act returns
C27_LoopAlwaysEnds ==
    (pc \in Presenting \cup {"final"}) ~> (pc \in {"keep_alive"} \cup TornDown)

\* C31: the status a successful next_slide or previous_slide returns names the
\* slide the command itself made current: the ordinal of the index it wrote
C31_StatusNamesOwnSlide ==
    (tool.op \in {"next_slide", "previous_slide"} /\ tool.status.kind = "now_on")
       => tool.status.n = tool.post + 1

\* C32: while no deck is loaded (total_slides = 0, at the start and after the
\* reset of the finally block) every call of a tool leaves the globals as they
\* are, with the cursor at 0, publishes nothing and returns a refusal
C32_NoDeckNoOp ==
    [][ (ncalls' = ncalls + 1 /\ total_slides = 0)
          => /\ current_slide_index = 0
             /\ current_slide_index' = 0
             /\ total_slides' = 0
             /\ slides_data' = slides_data
             /\ room_context' = room_context
             /\ ~tool'.published
             /\ tool'.attrs = NoAttrs
             /\ tool'.status.kind =
                  CASE tool'.op = "next_slide" -> "already_last"
                    [] tool'.op = "previous_slide" -> "already_first"
                    [] OTHER -> "invalid" ]_vars

C32_Witness ==
    /\ pc = "done"
    /\ closings = 1
    /\ total_slides = 0
    /\ current_slide_index = 0
    /\ Called("goto_slide")
    /\ tool.arg = 1
    /\ tool.status.kind = "invalid"

\* C33: once the while loop has been left, entrypoint never returns to it: no
\* instruction and no second closing remark is sent, and entrypoint writes the
\* cursor no more, except for the reset to 0 in its finally block, whatever
\* the tools do to the cursor afterwards
C33_AutomationNeverResumes ==
    [][ (pc \in {"final", "keep_alive"} \cup TornDown)
          => /\ pc' \notin Presenting
             /\ pc' = "final" => pc = "final"
             /\ narrated' \subseteq narrated
             /\ closings' = closings
             /\ closings <= 1
             /\ DriverStep => current_slide_index' \in {current_slide_index, 0}
             /\ (DriverStep /\ pc \notin {"disconnect"})
                  => current_slide_index' = current_slide_index ]_vars

C33_Witness ==
    /\ pc = "keep_alive"
    /\ drv.ev = "interrupted"
    /\ drv.touched = "none"
    /\ Called("goto_slide")
    /\ tool.pre = drv.to
    /\ tool.post # tool.pre
    /\ tool.status.kind = "now_on"
    /\ current_slide_index = tool.post
====
